---- MODULE Spec2Model ----
(***************************************************************************)
(* mesh-router-agent: the lifecycle loop (index.ts), the backend client    *)
(* (services/IpRegistrar.ts), the configuration parser (config/EnvConfig)  *)
(* and the certificate manager (services/CertificateManager.ts).           *)
(*                                                                         *)
(* Text that the code parses is a sequence of one-character strings, so    *)
(* that split, trim and the address patterns are computed, not assumed.    *)
(***************************************************************************)
EXTENDS Integers, Sequences, FiniteSets, TLC

VARIABLES
    entry,        \* which index.ts runs: "routes" (v2) or "heartbeat" (v1)
    config,       \* the EnvConfig record read from the environment
    pc,           \* position of main()
    exitCode,     \* -1 while running, else the process exit status
    provider,     \* const provider = parseProvider(config.PROVIDER)
    backendReady, \* let backendReady
    publicIp,     \* const publicIp
    route,        \* const route: Route
    currentIp,    \* const currentIp of the running refresh iteration
    lastResolve,  \* completion of the last config.PUBLIC_IP || detectPublicIp()
    lastOutcome,  \* what the network did to the last backend request
    lastResult,   \* completion of the last backend call
    lastCall,     \* the last request handed to registerRoutes/registerIp/sendHeartbeat
    everOps,      \* outbound operations issued since the process started
    iterOps,      \* outbound operations issued in the running loop iteration
    iterations,   \* completed loop iterations (saturates at MaxIter)
    probes,       \* probes issued (saturates at MaxProbes)
    probeDelays,  \* the delays slept between probes, in milliseconds
    disk,         \* the key, certificate and CA certificate files
    cpc,          \* position of the certificate manager's caller
    keyPem,       \* the key ensureKeyPair returned to the caller, or "none"
    pending,      \* the CertificateState being saved by requestCertificate
    prevDisk,     \* the files as they were when requestCertificate was last called
    certOutcome,  \* what the network did to the last certificate request
    certResult,   \* completion of the last requestCertificate
    loaded,       \* what the last loadCertificateState returned
    loadResult,   \* completion of the last loadCertificateState
    certOp,       \* the last certificate-manager event
    renewals,     \* requestCertificate calls made (saturates at MaxRenewals)
    now,          \* new Date() at the needsRenewal call, in milliseconds
    expiresAt,    \* the Date handed to needsRenewal
    renewal,      \* what needsRenewal returned, "none" before the call
    stunIn,       \* what detectPublicIpViaStun does during the detectPublicIp call
    echoesIn,     \* what the address-echo services do during that call
    contacted,    \* the services detectPublicIp contacted, in order
    detection,    \* completion of the detectPublicIp call
    providerInput, \* the providerString handed to parseProvider
    parseResult,  \* completion of the parseProvider call
    inflight,     \* the outbound operations in progress, oldest first
    awaiting,     \* main() is suspended at an await of an outbound call
    staleTimers,  \* abort timers of settled requests, still pending
    service,      \* index of the address-echo service being tried, 0 if none
    elapsed,      \* time and sleeps since the last registerRoutes call began
    settled       \* how the last outbound operation ended

mainVars ==
    <<entry, config, pc, exitCode, provider, backendReady, publicIp, route,
      currentIp, lastResolve, lastOutcome, lastResult, lastCall, everOps, iterOps,
      iterations, probes, probeDelays>>

certVars ==
    <<disk, cpc, keyPem, pending, prevDisk, certOutcome, certResult, loaded,
      loadResult, certOp, renewals>>

\* Arguments and results of the functions that are called on their own
callVars ==
    <<now, expiresAt, renewal, stunIn, echoesIn, contacted, detection, providerInput,
      parseResult>>

\* main() seen at the granularity of its awaits
asyncVars == <<inflight, awaiting, staleTimers, service, elapsed, settled>>

vars == <<mainVars, certVars, callVars, asyncVars>>

-----------------------------------------------------------------------------
\* Bounds of the model
MaxIter == 2
MaxProbes == 4
MaxRenewals == 2

Min(a, b) == IF a < b THEN a ELSE b

-----------------------------------------------------------------------------
\* Text helpers (JavaScript string operations on character sequences)

Digits == {"0", "1", "2", "3", "4", "5", "6", "7", "8", "9"}
HexLetters == {"a", "b", "c", "d", "e", "f", "A", "B", "C", "D", "E", "F"}
Whitespace == {" ", "\n", "\t", "\r"}

RECURSIVE IndexOf(_, _, _)
\* s.indexOf(c) searched from position i (1-based), 0 when absent
IndexOf(s, c, i) ==
    IF i > Len(s) THEN 0
    ELSE IF s[i] = c THEN i
    ELSE IndexOf(s, c, i + 1)

RECURSIVE Split(_, _)
\* s.split(sep): always at least one piece, pieces may be empty
Split(s, sep) ==
    LET k == IndexOf(s, sep, 1) IN
    IF k = 0 THEN <<s>>
    ELSE <<SubSeq(s, 1, k - 1)>> \o Split(SubSeq(s, k + 1, Len(s)), sep)

RECURSIVE TrimLeft(_)
TrimLeft(s) ==
    IF s # <<>> /\ Head(s) \in Whitespace THEN TrimLeft(Tail(s)) ELSE s

RECURSIVE TrimRight(_)
TrimRight(s) ==
    IF s # <<>> /\ s[Len(s)] \in Whitespace
    THEN TrimRight(SubSeq(s, 1, Len(s) - 1))
    ELSE s

\* s.trim()
Trim(s) == TrimRight(TrimLeft(s))

\* s.startsWith(p)
StartsWith(s, p) == Len(s) >= Len(p) /\ SubSeq(s, 1, Len(p)) = p

-----------------------------------------------------------------------------
\* config/EnvConfig.ts

\* Character sequences of the texts used below
Txt_http_b == <<"h", "t", "t", "p", ":", "b">>
Txt_ftp_b == <<"f", "t", "p", ":", "b">>
Txt_u == <<"u">>
Txt_s == <<"s">>
Comma == <<",">>

Addr1 == <<"1", ".", "2", ".", "3", ".", "4">>
Addr2 == <<"2", "5", "5", ".", "0", ".", "0", ".", "9">>
Addr6 == <<":", ":", "1">>

Addr3 == <<"2", "0", "3", ".", "0", ".", "1", "1", "3", ".", "5">>

\* https://api.example.com,alice,sig123
Txt_example ==
    <<"h", "t", "t", "p", "s", ":", "/", "/", "a", "p", "i", ".", "e", "x",
      "a", "m", "p", "l", "e", ".", "c", "o", "m", ",", "a", "l", "i", "c",
      "e", ",", "s", "i", "g", "1", "2", "3">>

\* http:b,u/1,s+= (an id and a signature with characters that a URL reserves)
Txt_reserved ==
    <<"h", "t", "t", "p", ":", "b", ",", "u", "/", "1", ",", "s", "+", "=">>

\* Values of the PROVIDER environment variable
ProviderStrings ==
    { <<>>,                                             \* unset
      Txt_http_b \o Comma \o Txt_u \o Comma \o Txt_s,     \* http:b,u,s
      Txt_ftp_b \o Comma \o Txt_u \o Comma \o Txt_s,      \* ftp:b,u,s
      Txt_http_b \o Comma \o Txt_u,                      \* http:b,u
      Txt_http_b \o Comma \o Comma \o Txt_s }             \* http:b,,s

\* The environments the agent is started in: the defaults and a customised
\* route, each with and without an address override, and the malformed
\* provider strings
DefaultConfig ==
    [ PROVIDER |-> Txt_http_b \o Comma \o Txt_u \o Comma \o Txt_s,
      PUBLIC_IP |-> <<>>,
      TARGET_PORT |-> 443,
      ROUTE_PRIORITY |-> 1,
      REFRESH_INTERVAL |-> 300,
      HEARTBEAT_INTERVAL |-> 300,
      HEALTH_CHECK_PATH |-> "",
      HEALTH_CHECK_HOST |-> "" ]
CustomConfig ==
    [ DefaultConfig EXCEPT !.TARGET_PORT = 8443, !.ROUTE_PRIORITY = 2,
                           !.HEALTH_CHECK_PATH = "/health",
                           !.HEALTH_CHECK_HOST = "pcs.local" ]
ExampleConfig == [DefaultConfig EXCEPT !.PROVIDER = Txt_example]
ReservedConfig == [DefaultConfig EXCEPT !.PROVIDER = Txt_reserved]
Configs ==
    { [c EXCEPT !.PUBLIC_IP = ip] : c \in {DefaultConfig, CustomConfig},
                                    ip \in {<<>>, Addr2} }
    \cup { [DefaultConfig EXCEPT !.PROVIDER = p] : p \in ProviderStrings }
    \cup { ExampleConfig, ReservedConfig }

NoHealthCheck == [defined |-> FALSE, path |-> "", host |-> ""]

\* getHealthCheckConfig(): undefined without a path, else {path, host?}
getHealthCheckConfig(cfg) ==
    IF cfg.HEALTH_CHECK_PATH = "" THEN NoHealthCheck
    ELSE [defined |-> TRUE, path |-> cfg.HEALTH_CHECK_PATH,
          host |-> cfg.HEALTH_CHECK_HOST]

NoProvider == [backendUrl |-> <<>>, userId |-> <<>>, signature |-> <<>>]
NoErr == [name |-> "", message |-> ""]

\* The i-th element of a destructured array: undefined (here empty) when absent
Field(parts, i) == IF i <= Len(parts) THEN parts[i] ELSE <<>>

\* (variant: the scheme of the backend URL is not checked)
parseProviderAnyUrl(providerString) ==
    LET parts == Split(providerString, ",") IN
    IF Field(parts, 1) = <<>> \/ Field(parts, 2) = <<>> \/ Field(parts, 3) = <<>>
    THEN [thrown |-> TRUE,
          err |-> [name |-> "Error", message |-> "Invalid PROVIDER format"],
          ret |-> NoProvider]
    ELSE [thrown |-> FALSE, err |-> NoErr,
          ret |-> [backendUrl |-> Field(parts, 1), userId |-> Field(parts, 2),
                   signature |-> Field(parts, 3)]]

\* parseProvider(providerString): completion [thrown, err, ret]
parseProvider(providerString) ==
    LET parts == Split(providerString, ",")
        backendUrl == Field(parts, 1)
        userId == Field(parts, 2)
        signature == Field(parts, 3)
    IN  IF backendUrl = <<>> \/ userId = <<>> \/ signature = <<>>
        THEN [thrown |-> TRUE,
              err |-> [name |-> "Error", message |-> "Invalid PROVIDER format"],
              ret |-> NoProvider]
        ELSE IF ~StartsWith(backendUrl, <<"h", "t", "t", "p">>)
        THEN [thrown |-> TRUE,
              err |-> [name |-> "Error", message |-> "backend_url must start with http"],
              ret |-> NoProvider]
        ELSE [thrown |-> FALSE, err |-> NoErr,
              ret |-> [backendUrl |-> backendUrl, userId |-> userId,
                       signature |-> signature]]

-----------------------------------------------------------------------------
\* JavaScript values and completions

JsUndefined == [t |-> "undefined", s |-> ""]
JsNull == [t |-> "null", s |-> ""]
JsFalse == [t |-> "boolean", s |-> "false"]
JsZero == [t |-> "number", s |-> "0"]
JsStr(x) == [t |-> "string", s |-> x]

\* ToBoolean(v), as used by if (v) and by v || d
Truthy(v) ==
    CASE v.t = "string" -> v.s # ""
      [] v.t = "number" -> v.s \notin {"0", "NaN"}
      [] v.t = "boolean" -> v.s = "true"
      [] OTHER -> FALSE

\* a || b
OrElse(a, b) == IF Truthy(a) THEN a ELSE b

Return(v) == [thrown |-> FALSE, err |-> NoErr, ret |-> v]
Throw(e, none) == [thrown |-> TRUE, err |-> e, ret |-> none]

AbortError == [name |-> "AbortError", message |-> "This operation was aborted"]
FetchFailed == [name |-> "TypeError", message |-> "fetch failed"]
JsonSyntaxError == [name |-> "SyntaxError", message |-> "Unexpected token in JSON"]
NullPropertyError ==
    [name |-> "TypeError", message |-> "Cannot read properties of null"]
HttpStatusError == [name |-> "Error", message |-> "HTTP status not ok"]
DetectError ==
    [name |-> "Error",
     message |-> "Failed to detect public IP from all STUN and HTTP services"]
StunError == [name |-> "Error", message |-> "STUN failed"]

-----------------------------------------------------------------------------
\* What the network can do to one request

\* Parsed response bodies: not JSON at all, the JSON null, or a JSON value
\* whose error/message/domain members are read (absent members read undefined)
MalformedBody ==
    [kind |-> "malformed", error |-> JsUndefined, message |-> JsUndefined,
     domain |-> JsUndefined]
NullBody ==
    [kind |-> "null", error |-> JsUndefined, message |-> JsUndefined,
     domain |-> JsUndefined]
ObjectBodies ==
    [ kind : {"object"},
      error : {JsUndefined, JsStr("denied")},
      message : {JsUndefined, JsStr("ok")},
      domain : {JsStr("d.example")} ]
    \cup [ kind : {"object"},
           error : {JsNull, JsFalse, JsZero, JsStr("")},
           message : {JsUndefined},
           domain : {JsStr("d.example")} ]
JsonBodies == {MalformedBody, NullBody} \cup ObjectBodies

NoBody == MalformedBody

\* Outcomes of a request to the backend
BackendOutcomes ==
    { [net |-> "timeout", ok |-> FALSE, text |-> NoBody],
      [net |-> "refused", ok |-> FALSE, text |-> NoBody] }
    \cup [net : {"response"}, ok : BOOLEAN, text : JsonBodies]

\* Replies of an address-echo service
EchoTexts ==
    { Addr1 \o <<"\n">>,                             \* "1.2.3.4\n"
      Addr6,                                         \* "::1"
      <<"2", "5", "6", ".", "1", ".", "1", ".", "1">>, \* "256.1.1.1"
      <<"<", "h", ">">>,                             \* an HTML error page
      <<"1", ":", "2">>,                             \* "1:2"
      <<>> }
EchoOutcomes ==
    { [net |-> "timeout", ok |-> FALSE, text |-> <<>>],
      [net |-> "refused", ok |-> FALSE, text |-> <<>>],
      [net |-> "response", ok |-> FALSE, text |-> Addr1] }
    \cup [net : {"response"}, ok : {TRUE}, text : EchoTexts]

\* Outcomes of detectPublicIpViaStun(): an address, or a rejection
StunOutcomes ==
    { [thrown |-> TRUE, err |-> StunError, ret |-> <<>>],
      [thrown |-> FALSE, err |-> NoErr, ret |-> Addr1],
      [thrown |-> FALSE, err |-> NoErr, ret |-> Addr3] }

TransportFailure(o) ==
    \/ o.net \in {"timeout", "refused"}
    \/ o.net = "response" /\ o.text.kind = "malformed"

-----------------------------------------------------------------------------
\* services/IpRegistrar.ts

\* fetch(url, {signal}): rejects on abort and on connection failure
Fetch(o) ==
    CASE o.net = "timeout" -> Throw(AbortError, o)
      [] o.net = "refused" -> Throw(FetchFailed, o)
      [] OTHER -> Return(o)

\* httpGet(url): the response text; throws unless response.ok
httpGet(o, none) ==
    LET response == Fetch(o) IN
    IF response.thrown THEN Throw(response.err, none)
    ELSE IF ~response.ret.ok THEN Throw(HttpStatusError, none)
    ELSE Return(response.ret.text)

\* httpPost(url, body): response.json(), whatever the status
httpPost(o) ==
    LET response == Fetch(o) IN
    IF response.thrown THEN Throw(response.err, NoBody)
    ELSE IF response.ret.text.kind = "malformed" THEN Throw(JsonSyntaxError, NoBody)
    ELSE Return(response.ret.text)

\* The characters encodeURIComponent leaves as they are
Letters ==
    {
      "a", "b", "c", "d", "e", "f", "g", "h", "i", "j", "k", "l", "m",
      "n", "o", "p", "q", "r", "s", "t", "u", "v", "w", "x", "y", "z",
      "A", "B", "C", "D", "E", "F", "G", "H", "I", "J", "K", "L", "M",
      "N", "O", "P", "Q", "R", "S", "T", "U", "V", "W", "X", "Y", "Z" }
UriUnreserved == Digits \cup Letters \cup {"-", "_", ".", "!", "~", "*", "'", "(", ")"}

\* The %XX escape of a character that is not left as it is
PercentEncoded(c) ==
    CASE c = " " -> <<"%", "2", "0">>
      [] c = "#" -> <<"%", "2", "3">>
      [] c = "%" -> <<"%", "2", "5">>
      [] c = "&" -> <<"%", "2", "6">>
      [] c = "+" -> <<"%", "2", "B">>
      [] c = "," -> <<"%", "2", "C">>
      [] c = "/" -> <<"%", "2", "F">>
      [] c = ":" -> <<"%", "3", "A">>
      [] c = "=" -> <<"%", "3", "D">>
      [] c = "?" -> <<"%", "3", "F">>
      [] c = "@" -> <<"%", "4", "0">>

\* (variant: the id and the signature are put into the URL as they are)
encodeURIComponentRaw(s) == s

RECURSIVE encodeURIComponent(_)
\* encodeURIComponent(s)
encodeURIComponent(s) ==
    IF s = <<>> THEN <<>>
    ELSE (IF Head(s) \in UriUnreserved THEN <<Head(s)>> ELSE PercentEncoded(Head(s)))
         \o encodeURIComponent(Tail(s))

\* /router/api/routes/
RoutesPath ==
    <<"/", "r", "o", "u", "t", "e", "r", "/", "a", "p", "i", "/", "r", "o",
      "u", "t", "e", "s", "/">>

\* /router/api/heartbeat/
HeartbeatPath ==
    <<"/", "r", "o", "u", "t", "e", "r", "/", "a", "p", "i", "/", "h", "e",
      "a", "r", "t", "b", "e", "a", "t", "/">>

\* /router/api/ip/
IpPath ==
    <<"/", "r", "o", "u", "t", "e", "r", "/", "a", "p", "i", "/", "i", "p",
      "/">>

\* /router/api/available/healthcheck
HealthcheckPath ==
    <<"/", "r", "o", "u", "t", "e", "r", "/", "a", "p", "i", "/", "a", "v",
      "a", "i", "l", "a", "b", "l", "e", "/", "h", "e", "a", "l", "t", "h",
      "c", "h", "e", "c", "k">>

\* `${backendUrl}/router/api/.../${encodeURIComponent(userId)}/${encodeURIComponent(signature)}`
IdentityUrl(prov, path) ==
    prov.backendUrl \o path \o encodeURIComponent(prov.userId) \o <<"/">>
        \o encodeURIComponent(prov.signature)

\* The fallback address-echo services, in the order they are tried
httpServices ==
    <<"https://api.ipify.org", "https://ifconfig.me/ip", "https://icanhazip.com">>

\* (?:25[0-5]|2[0-4][0-9]|[01]?[0-9][0-9]?)
IsOctet(p) ==
    /\ Len(p) \in 1..3
    /\ \A i \in 1..Len(p) : p[i] \in Digits
    /\ Len(p) = 3 =>
          \/ p[1] \in {"0", "1"}
          \/ p[1] = "2" /\ p[2] \in {"0", "1", "2", "3", "4"}
          \/ p[1] = "2" /\ p[2] = "5" /\ p[3] \in {"0", "1", "2", "3", "4", "5"}

\* isValidIp(ip): the IPv4 pattern, or a colon and nothing but hex digits and colons
isValidIp(ip) ==
    LET parts == Split(ip, ".")
        ipv4 == Len(parts) = 4 /\ \A i \in 1..4 : IsOctet(parts[i])
        ipv6 == /\ ip # <<>>
                /\ \A i \in 1..Len(ip) : ip[i] \in Digits \cup HexLetters \cup {":"}
    IN  ipv4 \/ (IndexOf(ip, ":", 1) # 0 /\ ipv6)

RECURSIVE TryHttpServices(_, _)
\* the for loop over httpServices, from service i on
TryHttpServices(echoes, i) ==
    IF i > Len(httpServices) THEN Throw(DetectError, <<>>)
    ELSE LET text == httpGet(echoes[i], <<>>) IN
         IF ~text.thrown /\ isValidIp(Trim(text.ret))
         THEN Return(Trim(text.ret))
         ELSE TryHttpServices(echoes, i + 1)

\* detectPublicIp(): STUN first, then the HTTP services
detectPublicIp(stun, echoes) ==
    IF ~stun.thrown THEN Return(stun.ret)
    ELSE TryHttpServices(echoes, 1)

RECURSIVE ServicesTried(_, _)
\* The services the for loop over httpServices contacts, from service i on
ServicesTried(echoes, i) ==
    IF i > Len(httpServices) THEN <<>>
    ELSE LET text == httpGet(echoes[i], <<>>) IN
         IF ~text.thrown /\ isValidIp(Trim(text.ret))
         THEN <<httpServices[i]>>
         ELSE <<httpServices[i]>> \o ServicesTried(echoes, i + 1)

\* What detectPublicIp() contacts: STUN, then the HTTP services it gets to
detectContacts(stun, echoes) ==
    <<"stun">> \o (IF ~stun.thrown THEN <<>> ELSE ServicesTried(echoes, 1))

\* What the echo services answer during one detectPublicIp call
EchoRuns == [1..Len(httpServices) -> EchoOutcomes]

\* Every completion detectPublicIp() can have, over all the network can do
DetectCompletions ==
    { detectPublicIp(stun, echoes) : stun \in StunOutcomes, echoes \in EchoRuns }

NoResult ==
    [success |-> FALSE, message |-> JsUndefined, error |-> JsUndefined,
     domain |-> JsUndefined]

\* (variant: registerRoutes has no catch, the error propagates)
registerRoutesRethrow(err) == Throw(err, NoResult)

\* catch (error) of registerRoutes
registerRoutesCatch(err) ==
    Return([success |-> FALSE,
            message |-> JsStr("Route registration request failed"),
            error |-> JsStr(err.message), domain |-> JsUndefined])

\* registerRoutes(provider, routes): completion of the call
registerRoutes(prov, routes, o) ==
    LET response == httpPost(o) IN
    IF response.thrown THEN registerRoutesCatch(response.err)
    ELSE IF response.ret.kind = "null" THEN registerRoutesCatch(NullPropertyError)
    ELSE IF Truthy(response.ret.error)
    THEN Return([success |-> FALSE, message |-> JsStr("Route registration failed"),
                 error |-> response.ret.error, domain |-> JsUndefined])
    ELSE Return([success |-> TRUE,
                 message |-> OrElse(response.ret.message,
                                    JsStr("Routes registered successfully")),
                 error |-> JsUndefined, domain |-> response.ret.domain])

\* registerIp(provider, publicIp, targetPort): the deprecated v1 call
registerIp(prov, hostIp, targetPort, o) ==
    LET response == httpPost(o)
        failed(err) ==
            Return([success |-> FALSE, message |-> JsStr("Registration request failed"),
                    error |-> JsStr(err.message), domain |-> JsUndefined])
    IN
    IF response.thrown THEN failed(response.err)
    ELSE IF response.ret.kind = "null" THEN failed(NullPropertyError)
    ELSE IF Truthy(response.ret.error)
    THEN Return([success |-> FALSE, message |-> JsStr("Registration failed"),
                 error |-> response.ret.error, domain |-> JsUndefined])
    ELSE Return([success |-> TRUE,
                 message |-> OrElse(response.ret.message,
                                    JsStr("IP registered successfully")),
                 error |-> JsUndefined, domain |-> response.ret.domain])

\* sendHeartbeat(provider)
sendHeartbeat(prov, o) ==
    LET response == httpPost(o)
        failed(err) ==
            Return([success |-> FALSE, message |-> JsStr("Heartbeat request failed"),
                    error |-> JsStr(err.message), domain |-> JsUndefined])
    IN
    IF response.thrown THEN failed(response.err)
    ELSE IF response.ret.kind = "null" THEN failed(NullPropertyError)
    ELSE IF Truthy(response.ret.error)
    THEN Return([success |-> FALSE, message |-> JsStr("Heartbeat failed"),
                 error |-> response.ret.error, domain |-> JsUndefined])
    ELSE Return([success |-> TRUE,
                 message |-> OrElse(response.ret.message, JsStr("Heartbeat sent")),
                 error |-> JsUndefined, domain |-> JsUndefined])

\* buildRoute(ip, port, priority, healthCheck)
buildRoute(ip, port, priority, healthCheck) ==
    [ip |-> ip, port |-> port, priority |-> priority,
     healthCheck |-> IF healthCheck.defined THEN healthCheck ELSE NoHealthCheck]

\* checkBackendHealth(backendUrl): true when the reply is JSON, false on any throw
checkBackendHealth(backendUrl, o) ==
    LET text == httpGet(o, NoBody) IN
    IF text.thrown THEN Return(FALSE)
    ELSE IF text.ret.kind = "malformed" THEN Return(FALSE)
    ELSE Return(TRUE)

-----------------------------------------------------------------------------
\* services/CertificateManager.ts

\* File modes 0o600 and 0o644
KeyMode == 384
CertMode == 420

NoFile == [exists |-> FALSE, data |-> "", mode |-> 0]
File(data, mode) == [exists |-> TRUE, data |-> data, mode |-> mode]

\* Keys forge.pki.rsa.generateKeyPair can produce, as PEM texts
GeneratedKeys == {"K1", "K2"}

InvalidDate == [valid |-> FALSE, time |-> 0]
NoCertState ==
    [privateKey |-> "", certificate |-> JsUndefined, caCertificate |-> JsUndefined,
     expiresAt |-> InvalidDate]
NotLoaded == [defined |-> FALSE, state |-> NoCertState]

\* forge.pki.certificateFromPem(pem).validity.notAfter, -1 when pem does not parse
CertNotAfter(pem) ==
    CASE pem = "C1" -> 100
      [] pem = "C2" -> 200
      [] pem = "C3" -> 300
      [] OTHER -> -1

\* new Date(value) of the expiresAt member of the response
NewDate(v) ==
    IF v.t = "string" /\ v.s \in {"T200", "T300"}
    THEN [valid |-> TRUE, time |-> IF v.s = "T200" THEN 200 ELSE 300]
    ELSE InvalidDate

\* Bodies of the certificate endpoint's replies
NoCertBody ==
    [kind |-> "malformed", certificate |-> JsUndefined,
     caCertificate |-> JsUndefined, expiresAt |-> JsUndefined]
CertBodies ==
    { NoCertBody, [NoCertBody EXCEPT !.kind = "null"] }
    \cup [ kind : {"object"},
           certificate : {JsUndefined, JsStr("C2"), JsStr("C3")},
           caCertificate : {JsUndefined, JsStr("CA1"), JsStr("CA2")},
           expiresAt : {JsUndefined, JsStr("T200"), JsStr("T300")} ]

\* Outcomes of the POST to the certificate endpoint
CertOutcomes ==
    { [net |-> "timeout", ok |-> FALSE, text |-> NoCertBody],
      [net |-> "refused", ok |-> FALSE, text |-> NoCertBody],
      [net |-> "response", ok |-> FALSE, text |-> NoCertBody],
      [net |-> "response", ok |-> FALSE, text |-> [NoCertBody EXCEPT !.kind = "object"]] }
    \cup [net : {"response"}, ok : {TRUE}, text : CertBodies]
NoCertOutcome == [net |-> "none", ok |-> FALSE, text |-> NoCertBody]

CertTimedOut == [name |-> "Error", message |-> "Certificate request timed out"]
CertRequestFailed == [name |-> "Error", message |-> "Certificate request failed"]
InvalidArgType ==
    [name |-> "TypeError", message |-> "The data argument must be of type string"]
IOError == [name |-> "IOError", message |-> "write failed"]
InvalidTime == [name |-> "RangeError", message |-> "Invalid time value"]
InvalidPem == [name |-> "Error", message |-> "Invalid PEM formatted message"]

\* fs.writeFileSync(path, data, {mode}) on the file at path: the data is
\* validated before the file is opened; the mode applies to a created file
\* only; io is what the file system does ("ok", "open_failed", "write_failed",
\* the latter after the file was truncated)
writeFileSync(file, data, mode, io) ==
    LET m == IF file.exists THEN file.mode ELSE mode IN
    IF data.t # "string" THEN Throw(InvalidArgType, file)
    ELSE CASE io = "open_failed" -> Throw(IOError, file)
           [] io = "write_failed" -> Throw(IOError, File("", m))
           [] OTHER -> Return(File(data.s, m))

IoOutcomes == {"ok", "open_failed", "write_failed"}

\* (variant: ensureKeyPair does not look for an existing key)
ensureKeyPairRegenerate(d, generated, io) ==
    LET w == writeFileSync(d.key, JsStr(generated), KeyMode, io) IN
    [thrown |-> w.thrown, err |-> w.err,
     ret |-> IF w.thrown THEN "" ELSE generated,
     disk |-> [d EXCEPT !.key = w.ret]]

\* ensureKeyPair(): the existing key, or a generated one written with 0o600
ensureKeyPair(d, generated, io) ==
    IF d.key.exists THEN [thrown |-> FALSE, err |-> NoErr, ret |-> d.key.data, disk |-> d]
    ELSE LET w == writeFileSync(d.key, JsStr(generated), KeyMode, io) IN
         [thrown |-> w.thrown, err |-> w.err,
          ret |-> IF w.thrown THEN "" ELSE generated,
          disk |-> [d EXCEPT !.key = w.ret]]

\* requestCertificate up to the CertificateState built from the response
\* (generateCSR, fetch, response.ok, response.json(), const state)
requestCertificateState(key, o) ==
    IF key \notin GeneratedKeys THEN Throw(InvalidPem, NoCertState)
    ELSE CASE o.net = "timeout" -> Throw(CertTimedOut, NoCertState)
           [] o.net = "refused" -> Throw(FetchFailed, NoCertState)
           [] ~o.ok -> Throw(CertRequestFailed, NoCertState)
           [] o.text.kind = "malformed" -> Throw(JsonSyntaxError, NoCertState)
           [] o.text.kind = "null" -> Throw(NullPropertyError, NoCertState)
           [] OTHER ->
                Return([privateKey |-> key,
                        certificate |-> o.text.certificate,
                        caCertificate |-> o.text.caCertificate,
                        expiresAt |-> NewDate(o.text.expiresAt)])

\* One hour in milliseconds
Hour == 60 * 60 * 1000

\* const validityPeriod = 72 * 60 * 60 * 1000
validityPeriod == 72 * 60 * 60 * 1000

\* const threshold = validityPeriod * RENEWAL_THRESHOLD, RENEWAL_THRESHOLD = 0.5
threshold == validityPeriod \div 2

\* (variant: the certificate is renewed at the threshold already)
needsRenewalInclusive(at, t) ==
    at.valid /\ (at.time - t <= 0 \/ at.time - t <= threshold)

\* needsRenewal(expiresAt) called at time t; getTime() of an invalid Date is
\* NaN, and every comparison with NaN is false
needsRenewal(at, t) ==
    IF ~at.valid THEN FALSE
    ELSE LET remaining == at.time - t IN
         IF remaining <= 0 THEN TRUE
         ELSE remaining < threshold

\* What fs.readFileSync can do on an existing file
ReadOutcomes == {"ok", "read_failed"}
ReadError == [name |-> "Error", message |-> "EACCES: permission denied"]

\* The try block of loadCertificateState(): null when a file is missing,
\* throws when a read fails or the certificate does not parse, else the state
\* with the certificate's notAfter as expiresAt
loadCertificateStateTry(d, io) ==
    IF ~d.key.exists \/ ~d.cert.exists \/ ~d.ca.exists THEN Return(NotLoaded)
    ELSE IF io = "read_failed" THEN Throw(ReadError, NotLoaded)
    ELSE IF CertNotAfter(d.cert.data) < 0 THEN Throw(InvalidPem, NotLoaded)
    ELSE Return([defined |-> TRUE,
                 state |-> [privateKey |-> d.key.data,
                            certificate |-> JsStr(d.cert.data),
                            caCertificate |-> JsStr(d.ca.data),
                            expiresAt |-> [valid |-> TRUE,
                                           time |-> CertNotAfter(d.cert.data)]]])

\* (variant: loadCertificateState has no catch, the error propagates)
loadCertificateStateRethrow(err) == Throw(err, NotLoaded)

\* catch (error) of loadCertificateState: log, return null
loadCertificateStateCatch(err) == Return(NotLoaded)

\* loadCertificateState() with the file system doing io: completion of the call
loadCertificateStateOn(d, io) ==
    LET r == loadCertificateStateTry(d, io) IN
    IF r.thrown THEN loadCertificateStateCatch(r.err) ELSE r

\* loadCertificateState() on files that can be read
loadCertificateState(d) == loadCertificateStateOn(d, "ok").ret

\* The contents of the three files
Contents(d) ==
    <<[exists |-> d.key.exists, data |-> d.key.data],
      [exists |-> d.cert.exists, data |-> d.cert.data],
      [exists |-> d.ca.exists, data |-> d.ca.data]>>

EmptyDisk == [key |-> NoFile, cert |-> NoFile, ca |-> NoFile]

\* The files a starting agent can find: nothing, a key only, a full state
\* left by an earlier successful requestCertificate, or a full state that was
\* put there by other means (copied, restored) with other permissions
InitialDisks ==
    { EmptyDisk,
      [EmptyDisk EXCEPT !.key = File("K1", KeyMode)],
      [key |-> File("K1", KeyMode), cert |-> File("C1", CertMode),
       ca |-> File("CA1", CertMode)],
      [key |-> File("K1", CertMode), cert |-> File("C1", KeyMode),
       ca |-> File("CA1", KeyMode)] }

CertInit ==
    /\ cpc = "idle"
    /\ keyPem = "none"
    /\ pending = NoCertState
    /\ prevDisk = disk
    /\ certOutcome = NoCertOutcome
    /\ certResult = Return(NoCertState)
    /\ loaded = NotLoaded
    /\ loadResult = Return(NotLoaded)
    /\ certOp = "none"
    /\ renewals = 0

\* The caller obtains its key
EnsureKeyPair ==
    /\ cpc = "idle"
    /\ \E generated \in GeneratedKeys, io \in IoOutcomes :
         LET r == ensureKeyPair(disk, generated, io) IN
         /\ disk' = r.disk
         /\ keyPem' = IF r.thrown THEN keyPem ELSE r.ret
    /\ certOp' = "ensureKeyPair"
    /\ UNCHANGED <<cpc, pending, prevDisk, certOutcome, certResult, loaded,
                   loadResult, renewals>>
    /\ UNCHANGED <<mainVars, callVars, asyncVars>>

\* requestCertificate(provider, keyPem) up to the call of saveCertificateState
RequestCertificate ==
    /\ cpc = "idle"
    /\ keyPem # "none"
    /\ renewals < MaxRenewals
    /\ \E o \in CertOutcomes :
         LET r == requestCertificateState(keyPem, o) IN
         /\ certOutcome' = o
         /\ certResult' = r
         /\ pending' = r.ret
         /\ cpc' = IF r.thrown THEN "idle" ELSE "save_key"
    /\ prevDisk' = disk
    /\ certOp' = "requestCertificate"
    /\ renewals' = renewals + 1
    /\ UNCHANGED <<disk, keyPem, loaded, loadResult>>
    /\ UNCHANGED <<mainVars, callVars, asyncVars>>

\* One writeFileSync of saveCertificateState: which file, what data and mode,
\* and where the caller goes on
SaveStep(at, which, data, mode, then) ==
    /\ cpc = at
    /\ \E io \in IoOutcomes :
         LET w == writeFileSync(disk[which], data, mode, io) IN
         /\ disk' = [disk EXCEPT ![which] = w.ret]
         /\ cpc' = IF w.thrown THEN "idle" ELSE then
         /\ certResult' = IF w.thrown THEN Throw(w.err, NoCertState) ELSE certResult
    /\ UNCHANGED <<keyPem, pending, prevDisk, certOutcome, loaded, loadResult,
                   certOp, renewals>>
    /\ UNCHANGED <<mainVars, callVars, asyncVars>>

\* fs.writeFileSync(paths.keyPath, state.privateKey, { mode: 0o600 })
SaveKey == SaveStep("save_key", "key", JsStr(pending.privateKey), KeyMode, "save_cert")

\* fs.writeFileSync(paths.certPath, state.certificate, { mode: 0o644 })
SaveCert == SaveStep("save_cert", "cert", pending.certificate, CertMode, "save_ca")

\* fs.writeFileSync(paths.caCertPath, state.caCertificate, { mode: 0o644 })
SaveCa == SaveStep("save_ca", "ca", pending.caCertificate, CertMode, "save_log")

\* console.log(... state.expiresAt.toISOString()); return state
ReturnCertificate ==
    /\ cpc = "save_log"
    /\ cpc' = "idle"
    /\ certResult' = IF pending.expiresAt.valid THEN Return(pending)
                     ELSE Throw(InvalidTime, NoCertState)
    /\ UNCHANGED <<disk, keyPem, pending, prevDisk, certOutcome, loaded,
                   loadResult, certOp, renewals>>
    /\ UNCHANGED <<mainVars, callVars, asyncVars>>

\* The process dies while saveCertificateState is writing, and is restarted
CrashDuringSave ==
    /\ cpc \in {"save_key", "save_cert", "save_ca", "save_log"}
    /\ cpc' = "idle"
    /\ keyPem' = "none"
    /\ certOp' = "crash"
    /\ UNCHANGED <<disk, pending, prevDisk, certOutcome, certResult, loaded,
                   loadResult, renewals>>
    /\ UNCHANGED <<mainVars, callVars, asyncVars>>

\* loadCertificateState()
LoadCertificateState ==
    /\ cpc = "idle"
    /\ \E io \in ReadOutcomes :
         LET r == loadCertificateStateOn(disk, io) IN
         /\ loadResult' = r
         /\ loaded' = IF r.thrown THEN loaded ELSE r.ret
    /\ certOp' = "loadCertificateState"
    /\ UNCHANGED <<disk, cpc, keyPem, pending, prevDisk, certOutcome, certResult,
                   renewals>>
    /\ UNCHANGED <<mainVars, callVars, asyncVars>>

-----------------------------------------------------------------------------
\* index.ts: main()

NoRoute == [ip |-> <<>>, port |-> 0, priority |-> 0, healthCheck |-> NoHealthCheck]
NoOutcome == [net |-> "none", ok |-> FALSE, text |-> NoBody]
NoCall ==
    [op |-> "none", method |-> "", url |-> <<>>, provider |-> NoProvider,
     routes |-> <<>>, hostIp |-> <<>>, targetPort |-> 0]

MainInit ==
    /\ entry \in {"routes", "heartbeat"}
    /\ config \in Configs
    /\ pc = "start"
    /\ exitCode = -1
    /\ provider = NoProvider
    /\ backendReady = FALSE
    /\ publicIp = <<>>
    /\ route = NoRoute
    /\ currentIp = <<>>
    /\ lastResolve = Return(<<>>)
    /\ lastOutcome = NoOutcome
    /\ lastResult = Return(NoResult)
    /\ lastCall = NoCall
    /\ everOps = {}
    /\ iterOps = {}
    /\ iterations = 0
    /\ probes = 0
    /\ probeDelays = <<>>

\* No function is being called on its own
RenewalIdle ==
    /\ now = 0
    /\ expiresAt = InvalidDate
    /\ renewal = "none"

DetectIdle ==
    /\ stunIn = [thrown |-> TRUE, err |-> StunError, ret |-> <<>>]
    /\ echoesIn = <<>>
    /\ contacted = <<>>
    /\ detection = Return(<<>>)

NotParsed == [thrown |-> FALSE, err |-> NoErr, ret |-> NoProvider]

ParseIdle ==
    /\ providerInput = <<>>
    /\ parseResult = NotParsed

CallInit ==
    /\ RenewalIdle
    /\ DetectIdle
    /\ ParseIdle

\* No outbound operation was begun, no timer is set
NotRegistered == [ms |-> -1, sleeps |-> <<>>]
AsyncIdle ==
    /\ inflight = <<>>
    /\ awaiting = FALSE
    /\ staleTimers = 0
    /\ service = 0
    /\ elapsed = NotRegistered
    /\ settled = "none"

\* The agent starts; its main() makes no use of the certificate manager
Init ==
    /\ MainInit
    /\ disk = EmptyDisk
    /\ CertInit
    /\ CallInit
    /\ AsyncIdle

\* process.exit(1) after the PROVIDER check
ExitMissingProvider == [pc |-> "exited", exitCode |-> 1]

\* (variant: the rejection of main() is logged and the startup goes on)
MainCatchContinue(err) == [pc |-> "probe", exitCode |-> -1]

\* main().catch: log and process.exit(1)
MainCatch(err) == [pc |-> "exited", exitCode |-> 1]

\* Validate configuration, parse the provider string
Bootstrap ==
    /\ pc = "start"
    /\ LET parsed == parseProvider(config.PROVIDER)
           next == IF config.PROVIDER = <<>> THEN ExitMissingProvider
                   ELSE IF parsed.thrown THEN MainCatch(parsed.err)
                   ELSE [pc |-> "probe", exitCode |-> -1]
       IN  /\ pc' = next.pc
           /\ exitCode' = next.exitCode
           /\ provider' = IF next.pc = "probe" THEN parsed.ret ELSE provider
    /\ UNCHANGED <<entry, config, backendReady, publicIp, route, currentIp, lastResolve,
                   lastOutcome, lastResult, lastCall, everOps, iterOps, iterations,
                   probes,
                   probeDelays>>
    /\ UNCHANGED <<certVars, callVars, asyncVars>>

\* (variant: the loop is left after the first probe, whatever it answered)
AfterProbeNoRetry(ready) == "detect"

\* while (!backendReady): leave the loop once the probe answered true
AfterProbe(ready) == IF ready THEN "detect" ELSE "probe_sleep"

\* backendReady = await checkBackendHealth(provider.backendUrl)
CheckBackend ==
    /\ pc = "probe"
    /\ \E o \in BackendOutcomes :
         LET r == checkBackendHealth(provider.backendUrl, o)
             next == IF r.thrown THEN MainCatch(r.err)
                     ELSE [pc |-> AfterProbe(r.ret), exitCode |-> -1]
         IN  /\ pc' = next.pc
             /\ exitCode' = next.exitCode
             /\ backendReady' = IF r.thrown THEN backendReady ELSE r.ret
             /\ lastOutcome' = o
             /\ lastResult' = r
             /\ lastCall' = [NoCall EXCEPT !.op = "checkBackendHealth", !.method = "GET",
                                          !.url = provider.backendUrl
                                                    \o HealthcheckPath]
    /\ everOps' = everOps \cup {"checkBackendHealth"}
    /\ probes' = Min(probes + 1, MaxProbes)
    /\ UNCHANGED <<entry, config, provider, publicIp, route, currentIp, lastResolve,
                   iterOps, iterations, probeDelays>>
    /\ UNCHANGED <<certVars, callVars, asyncVars>>

\* (variant: the delay grows with the number of failed probes)
probeDelayBackoff(failed) == 30000 * failed

\* The argument of sleep after the failed-th failed probe: sleep(30000)
probeDelay(failed) == 30000

\* await sleep(30000)
ProbeSleep ==
    /\ pc = "probe_sleep"
    /\ pc' = "probe"
    /\ probeDelays' = IF Len(probeDelays) < MaxProbes
                      THEN Append(probeDelays, probeDelay(Len(probeDelays) + 1))
                      ELSE probeDelays
    /\ UNCHANGED <<entry, config, exitCode, provider, backendReady, publicIp, route,
                   currentIp, lastResolve, lastOutcome, lastResult, lastCall, everOps,
                   iterOps, iterations, probes>>
    /\ UNCHANGED <<certVars, callVars, asyncVars>>

\* (variant: the override is only the fallback of a failed detection)
ResolveAddressDetectFirst(cfg, detected) ==
    IF cfg.PUBLIC_IP # <<>> /\ detected.thrown THEN Return(cfg.PUBLIC_IP)
    ELSE detected

\* config.PUBLIC_IP || (await detectPublicIp()), detected being the completion
\* of the detectPublicIp() call that is made without an override
ResolveAddress(cfg, detected) ==
    IF cfg.PUBLIC_IP # <<>> THEN Return(cfg.PUBLIC_IP)
    ELSE detected

\* The operations ResolveAddress issues
ResolveOps(cfg) == IF cfg.PUBLIC_IP # <<>> THEN {} ELSE {"detectPublicIp"}

\* Detect the public IP and (v2) build the route
InitialDetect ==
    /\ pc = "detect"
    /\ \E detected \in DetectCompletions :
         LET d == ResolveAddress(config, detected)
             next == IF d.thrown THEN MainCatch(d.err)
                     ELSE [pc |-> "register", exitCode |-> -1]
         IN  /\ pc' = next.pc
             /\ exitCode' = next.exitCode
             /\ lastResolve' = d
             /\ publicIp' = IF d.thrown THEN publicIp ELSE d.ret
             /\ route' = IF d.thrown \/ entry # "routes" THEN route
                          ELSE buildRoute(d.ret, config.TARGET_PORT,
                                          config.ROUTE_PRIORITY,
                                          getHealthCheckConfig(config))
    /\ everOps' = everOps \cup ResolveOps(config)
    /\ UNCHANGED <<entry, config, provider, backendReady, currentIp, lastOutcome,
                   lastResult, lastCall, iterOps, iterations, probes,
                   probeDelays>>
    /\ UNCHANGED <<certVars, callVars, asyncVars>>

\* doRegisterRoute(): registerRoutes(provider, [route]), true on success
doRegisterRoute(prov, r, o) ==
    LET result == registerRoutes(prov, <<r>>, o) IN
    IF result.thrown THEN Throw(result.err, FALSE)
    ELSE Return(result.ret.success)

\* (variant: a failed initial registration is only logged)
AfterInitialRegisterLenient(initialSuccess) ==
    [pc |-> "refresh_sleep", exitCode |-> -1]

\* if (!initialSuccess) process.exit(1), else enter the refresh loop
AfterInitialRegister(initialSuccess) ==
    IF initialSuccess THEN [pc |-> "refresh_sleep", exitCode |-> -1]
    ELSE [pc |-> "exited", exitCode |-> 1]

\* Initial route registration (v2)
InitialRegister ==
    /\ pc = "register"
    /\ entry = "routes"
    /\ \E o \in BackendOutcomes :
         LET r == doRegisterRoute(provider, route, o)
             next == IF r.thrown THEN MainCatch(r.err)
                     ELSE AfterInitialRegister(r.ret)
         IN  /\ pc' = next.pc
             /\ exitCode' = next.exitCode
             /\ lastOutcome' = o
             /\ lastResult' = registerRoutes(provider, <<route>>, o)
    /\ lastCall' = [NoCall EXCEPT !.op = "registerRoutes", !.method = "POST",
                                  !.url = IdentityUrl(provider, RoutesPath),
                                  !.provider = provider, !.routes = <<route>>]
    /\ everOps' = everOps \cup {"registerRoutes"}
    /\ UNCHANGED <<entry, config, provider, backendReady, publicIp, route, currentIp, lastResolve,
                   iterOps, iterations, probes,
                   probeDelays>>
    /\ UNCHANGED <<certVars, callVars, asyncVars>>

\* if (regResult.success) ... else process.exit(1), then the heartbeat loop
AfterRegisterIp(success) ==
    IF success THEN [pc |-> "hb_sleep", exitCode |-> -1]
    ELSE [pc |-> "exited", exitCode |-> 1]

\* Initial IP registration (v1)
LegacyRegister ==
    /\ pc = "register"
    /\ entry = "heartbeat"
    /\ \E o \in BackendOutcomes :
         LET r == registerIp(provider, publicIp, config.TARGET_PORT, o)
             next == IF r.thrown THEN MainCatch(r.err)
                     ELSE AfterRegisterIp(r.ret.success)
         IN  /\ pc' = next.pc
             /\ exitCode' = next.exitCode
             /\ lastOutcome' = o
             /\ lastResult' = r
    /\ lastCall' = [NoCall EXCEPT !.op = "registerIp", !.method = "POST",
                                  !.url = IdentityUrl(provider, IpPath),
                                  !.provider = provider,
                                  !.hostIp = publicIp,
                                  !.targetPort = config.TARGET_PORT]
    /\ everOps' = everOps \cup {"registerIp"}
    /\ UNCHANGED <<entry, config, provider, backendReady, publicIp, route, currentIp, lastResolve,
                   iterOps, iterations, probes,
                   probeDelays>>
    /\ UNCHANGED <<certVars, callVars, asyncVars>>

\* await sleep(config.REFRESH_INTERVAL * 1000): a new iteration begins
RefreshSleep ==
    /\ pc = "refresh_sleep"
    /\ pc' = "refresh_detect"
    /\ iterOps' = {}
    /\ UNCHANGED <<entry, config, exitCode, provider, backendReady, publicIp, route,
                   currentIp, lastResolve, lastOutcome, lastResult, lastCall, everOps, iterations,
                   probes,
                   probeDelays>>
    /\ UNCHANGED <<certVars, callVars, asyncVars>>

\* (variant: the refresh loop has no try/catch, the error reaches main().catch)
RefreshCatchFatal(err) == [pc |-> "exited", exitCode |-> 1]

\* catch (error) of the refresh loop: log, go on with the next iteration
RefreshCatch(err) == [pc |-> "refresh_sleep", exitCode |-> -1]

\* (variant: the change is logged but the route is not updated)
UpdateRouteStale(r, ip) == r

\* (variant: a changed address rebuilds the route with the default settings)
UpdateRouteRebuilt(r, ip) ==
    IF ip # r.ip THEN buildRoute(ip, 443, 1, NoHealthCheck) ELSE r

\* if (currentIp !== route.ip) route.ip = currentIp
UpdateRoute(r, ip) == IF ip # r.ip THEN [r EXCEPT !.ip = ip] ELSE r

\* Re-detect the IP and update the route in place
RefreshDetect ==
    /\ pc = "refresh_detect"
    /\ \E detected \in DetectCompletions :
         LET d == ResolveAddress(config, detected)
             next == IF d.thrown THEN RefreshCatch(d.err)
                     ELSE [pc |-> "refresh_register", exitCode |-> -1]
         IN  /\ pc' = next.pc
             /\ exitCode' = next.exitCode
             /\ lastResolve' = d
             /\ currentIp' = IF d.thrown THEN currentIp ELSE d.ret
             /\ route' = IF d.thrown THEN route ELSE UpdateRoute(route, d.ret)
             /\ iterations' = IF d.thrown THEN Min(iterations + 1, MaxIter)
                               ELSE iterations
    /\ everOps' = everOps \cup ResolveOps(config)
    /\ iterOps' = iterOps \cup ResolveOps(config)
    /\ UNCHANGED <<entry, config, provider, backendReady, publicIp, lastOutcome,
                   lastResult, lastCall, probes,
                   probeDelays>>
    /\ UNCHANGED <<certVars, callVars, asyncVars>>

\* await doRegisterRoute() inside the refresh loop
RefreshRegister ==
    /\ pc = "refresh_register"
    /\ \E o \in BackendOutcomes :
         LET r == doRegisterRoute(provider, route, o)
             next == IF r.thrown THEN RefreshCatch(r.err)
                     ELSE [pc |-> "refresh_sleep", exitCode |-> -1]
         IN  /\ pc' = next.pc
             /\ exitCode' = next.exitCode
             /\ lastOutcome' = o
             /\ lastResult' = registerRoutes(provider, <<route>>, o)
    /\ lastCall' = [NoCall EXCEPT !.op = "registerRoutes", !.method = "POST",
                                  !.url = IdentityUrl(provider, RoutesPath),
                                  !.provider = provider, !.routes = <<route>>]
    /\ everOps' = everOps \cup {"registerRoutes"}
    /\ iterOps' = iterOps \cup {"registerRoutes"}
    /\ iterations' = Min(iterations + 1, MaxIter)
    /\ UNCHANGED <<entry, config, provider, backendReady, publicIp, route, currentIp, lastResolve,
                   probes,
                   probeDelays>>
    /\ UNCHANGED <<certVars, callVars, asyncVars>>

\* await sleep(config.HEARTBEAT_INTERVAL * 1000)
HeartbeatSleep ==
    /\ pc = "hb_sleep"
    /\ pc' = "hb_send"
    /\ iterOps' = {}
    /\ UNCHANGED <<entry, config, exitCode, provider, backendReady, publicIp, route,
                   currentIp, lastResolve, lastOutcome, lastResult, lastCall, everOps, iterations,
                   probes,
                   probeDelays>>
    /\ UNCHANGED <<certVars, callVars, asyncVars>>

\* catch (error) of the heartbeat loop
HeartbeatCatch(err) == [pc |-> "hb_sleep", exitCode |-> -1]

\* await sendHeartbeat(provider) inside the heartbeat loop
Heartbeat ==
    /\ pc = "hb_send"
    /\ \E o \in BackendOutcomes :
         LET r == sendHeartbeat(provider, o)
             next == IF r.thrown THEN HeartbeatCatch(r.err)
                     ELSE [pc |-> "hb_sleep", exitCode |-> -1]
         IN  /\ pc' = next.pc
             /\ exitCode' = next.exitCode
             /\ lastOutcome' = o
             /\ lastResult' = r
    /\ lastCall' = [NoCall EXCEPT !.op = "sendHeartbeat", !.method = "POST",
                                  !.url = IdentityUrl(provider, HeartbeatPath),
                                  !.provider = provider]
    /\ everOps' = everOps \cup {"sendHeartbeat"}
    /\ iterOps' = iterOps \cup {"sendHeartbeat"}
    /\ iterations' = Min(iterations + 1, MaxIter)
    /\ UNCHANGED <<entry, config, provider, backendReady, publicIp, route, currentIp, lastResolve,
                   probes,
                   probeDelays>>
    /\ UNCHANGED <<certVars, callVars, asyncVars>>

Next ==
    \/ Bootstrap
    \/ CheckBackend
    \/ ProbeSleep
    \/ InitialDetect
    \/ InitialRegister
    \/ LegacyRegister
    \/ RefreshSleep
    \/ RefreshDetect
    \/ RefreshRegister
    \/ HeartbeatSleep
    \/ Heartbeat

Spec == Init /\ [][Next]_vars

\* The certificate manager driven by a caller that obtains its key with
\* ensureKeyPair, renews with requestCertificate and loads the state, on a disk
\* no other process writes
\* main() has not started
MainIdle ==
    /\ entry = "routes"
    /\ config = DefaultConfig
    /\ pc = "start"
    /\ exitCode = -1
    /\ provider = NoProvider
    /\ backendReady = FALSE
    /\ publicIp = <<>>
    /\ route = NoRoute
    /\ currentIp = <<>>
    /\ lastResolve = Return(<<>>)
    /\ lastOutcome = NoOutcome
    /\ lastResult = Return(NoResult)
    /\ lastCall = NoCall
    /\ everOps = {}
    /\ iterOps = {}
    /\ iterations = 0
    /\ probes = 0
    /\ probeDelays = <<>>
    /\ AsyncIdle

InitCert ==
    /\ MainIdle
    /\ disk \in InitialDisks
    /\ CertInit
    /\ CallInit

NextCert ==
    \/ EnsureKeyPair
    \/ RequestCertificate
    \/ SaveKey
    \/ SaveCert
    \/ SaveCa
    \/ ReturnCertificate
    \/ CrashDuringSave
    \/ LoadCertificateState

SpecCert == InitCert /\ [][NextCert]_vars

\* The files loadCertificateState can find at the configured paths: each one
\* absent, written by an earlier run, emptied, or (the certificate) not a PEM
KeyFiles == {NoFile, File("K1", KeyMode), File("K2", KeyMode), File("", KeyMode)}
CertFiles ==
    {NoFile, File("C1", CertMode), File("C2", CertMode), File("", CertMode),
     File("junk", CertMode)}
CaFiles == {NoFile, File("CA1", CertMode), File("", CertMode)}
AnyDisks == [key : KeyFiles, cert : CertFiles, ca : CaFiles]

\* loadCertificateState called on any of these files
InitLoad ==
    /\ MainIdle
    /\ disk \in AnyDisks
    /\ CertInit
    /\ CallInit

NextLoad == LoadCertificateState

SpecLoad == InitLoad /\ [][NextLoad]_vars

\* The times needsRenewal is called at (milliseconds since the agent started)
\* and the remaining lifetimes of the certificates it is called with
Nows == {0, 1, 60 * 1000, Hour, 36 * Hour}
Remainings ==
    { 0 - 72 * Hour, 0 - Hour, 0 - 1, 0, 1, Hour, 36 * Hour - Hour,
      36 * Hour - 1, 36 * Hour, 36 * Hour + 1, 36 * Hour + Hour, 72 * Hour }

\* needsRenewal called on its own
InitRenewal ==
    /\ MainIdle
    /\ disk = EmptyDisk
    /\ CertInit
    /\ now \in Nows
    /\ expiresAt \in {[valid |-> TRUE, time |-> now + r] : r \in Remainings}
                     \cup {InvalidDate}
    /\ renewal = "none"
    /\ DetectIdle
    /\ ParseIdle

\* const due = needsRenewal(expiresAt)
NeedsRenewal ==
    /\ renewal = "none"
    /\ renewal' = IF needsRenewal(expiresAt, now) THEN "true" ELSE "false"
    /\ UNCHANGED <<now, expiresAt, stunIn, echoesIn, contacted, detection,
                   providerInput, parseResult>>
    /\ UNCHANGED <<mainVars, certVars, asyncVars>>

NextRenewal == NeedsRenewal

SpecRenewal == InitRenewal /\ [][NextRenewal]_vars

RECURSIVE Join(_, _)
\* parts.join(sep)
Join(parts, sep) ==
    IF parts = <<>> THEN <<>>
    ELSE IF Len(parts) = 1 THEN parts[1]
    ELSE parts[1] \o sep \o Join(Tail(parts), sep)

\* The fields PROVIDER strings are made of, and the strings of one to four
\* comma-separated fields
MaxFields == 4
ProviderFields ==
    { <<>>, <<"h", "t", "t", "p">>, Txt_http_b, Txt_ftp_b, Txt_u, <<" ">> }
ProviderInputs ==
    { Join(fs, Comma) : fs \in UNION { [1..n -> ProviderFields] : n \in 1..MaxFields } }

\* parseProvider called on its own
InitParse ==
    /\ MainIdle
    /\ disk = EmptyDisk
    /\ CertInit
    /\ RenewalIdle
    /\ DetectIdle
    /\ providerInput \in ProviderInputs
    /\ parseResult = NotParsed

\* const provider = parseProvider(providerString)
ParseProvider ==
    /\ parseResult = NotParsed
    /\ parseResult' = parseProvider(providerInput)
    /\ UNCHANGED <<now, expiresAt, renewal, stunIn, echoesIn, contacted, detection,
                   providerInput>>
    /\ UNCHANGED <<mainVars, certVars, asyncVars>>

NextParse == ParseProvider

SpecParse == InitParse /\ [][NextParse]_vars

\* detectPublicIp called on its own, on a network that does stunIn and echoesIn
InitDetect ==
    /\ MainIdle
    /\ disk = EmptyDisk
    /\ CertInit
    /\ RenewalIdle
    /\ ParseIdle
    /\ stunIn \in StunOutcomes
    /\ echoesIn \in EchoRuns
    /\ contacted = <<>>
    /\ detection = Return(<<>>)

\* const ip = await detectPublicIp()
DetectPublicIp ==
    /\ contacted = <<>>
    /\ detection' = detectPublicIp(stunIn, echoesIn)
    /\ contacted' = detectContacts(stunIn, echoesIn)
    /\ UNCHANGED <<now, expiresAt, renewal, stunIn, echoesIn, providerInput,
                   parseResult>>
    /\ UNCHANGED <<mainVars, certVars, asyncVars>>

NextDetect == DetectPublicIp

SpecDetect == InitDetect /\ [][NextDetect]_vars

-----------------------------------------------------------------------------
\* main() at the granularity of its awaits: an outbound call is begun, main()
\* is suspended, and the call settles later (the remote party answers, or a
\* timer ends the wait); time advances with every sleep and every call

\* const HTTP_TIMEOUT = 10000 (milliseconds)
HTTP_TIMEOUT == 10000

\* "TTL-based expiry (routes must be refreshed every 5 minutes)", milliseconds
RouteTtl == 5 * 60 * 1000

\* The time a remote party takes when it answers before the timeout
ResponseTimes == {20, HTTP_TIMEOUT - 1}

\* staleTimers saturates here
MaxTimers == 2

\* elapsed records at most this many sleeps
MaxSleeps == 2

\* elapsed stops counting here
MaxElapsed == RouteTtl + 2 * HTTP_TIMEOUT

\* The configurations of the agent seen at this granularity: the defaults, an
\* address override, another refresh interval
AsyncConfigs ==
    { DefaultConfig,
      [DefaultConfig EXCEPT !.PUBLIC_IP = Addr2],
      [DefaultConfig EXCEPT !.REFRESH_INTERVAL = 600] }

\* (variant: setTimeout is never called, the controller never aborts)
createTimeoutControllerUnarmed(ms) == [ms |-> ms, armed |-> FALSE]

\* createTimeoutController(ms): setTimeout(() => controller.abort(), ms)
createTimeoutController(ms) == [ms |-> ms, armed |-> TRUE]

\* (variant: the call is started without await, main() goes on)
NotAwaited(op) == FALSE

\* `await` before every outbound call: main() is suspended until it settles
Awaited(op) == TRUE

\* The statements of main() that begin an outbound operation
CallPoints ==
    {"probe", "stun", "echo", "register", "refresh_stun", "refresh_echo",
     "refresh_register", "hb_send"}

\* The sleeps of main()
SleepPoints == {"probe_sleep", "refresh_sleep", "hb_sleep"}

\* The operation begun at call point p of entry point e
OpAt(e, p) ==
    CASE p = "probe" -> "checkBackendHealth"
      [] p \in {"stun", "refresh_stun"} -> "detectPublicIpViaStun"
      [] p \in {"echo", "refresh_echo"} -> "httpGet"
      [] p \in {"register", "refresh_register"} ->
           IF e = "routes" THEN "registerRoutes" ELSE "registerIp"
      [] p = "hb_send" -> "sendHeartbeat"

\* The operations that go through httpGet or httpPost
HttpOps ==
    {"checkBackendHealth", "httpGet", "registerRoutes", "registerIp",
     "sendHeartbeat"}

\* The locals of main()
Locals ==
    [pc |-> pc, exitCode |-> exitCode, service |-> service, route |-> route,
     publicIp |-> publicIp, currentIp |-> currentIp]

\* main() goes to n = [pc, exitCode]
Goto(l, n) == [l EXCEPT !.pc = n.pc, !.exitCode = n.exitCode, !.service = 0]

\* config.PUBLIC_IP || (await detectPublicIp()) gave ip: the bootstrap
\* builds the route, a refresh iteration updates it in place
Resolved(e, cfg, l, ip) ==
    IF l.pc \in {"probe", "stun", "echo"}
    THEN [l EXCEPT !.pc = "register", !.service = 0, !.publicIp = ip,
                   !.route = IF e = "routes"
                             THEN buildRoute(ip, cfg.TARGET_PORT,
                                             cfg.ROUTE_PRIORITY,
                                             getHealthCheckConfig(cfg))
                             ELSE l.route]
    ELSE [l EXCEPT !.pc = "refresh_register", !.service = 0,
                   !.currentIp = ip, !.route = UpdateRoute(l.route, ip)]

\* main() after the sleep at l.pc
AfterSleep(e, cfg, l) ==
    CASE l.pc = "probe_sleep" -> [l EXCEPT !.pc = "probe"]
      [] l.pc = "hb_sleep" -> [l EXCEPT !.pc = "hb_send"]
      [] l.pc = "refresh_sleep" ->
           IF cfg.PUBLIC_IP # <<>> THEN Resolved(e, cfg, l, cfg.PUBLIC_IP)
           ELSE [l EXCEPT !.pc = "refresh_stun"]

\* The length of the sleep at p, in milliseconds
SleepTime(cfg, p) ==
    CASE p = "probe_sleep" -> probeDelay(1)
      [] p = "hb_sleep" -> cfg.HEARTBEAT_INTERVAL * 1000
      [] p = "refresh_sleep" -> cfg.REFRESH_INTERVAL * 1000

\* main() after the call begun at l.pc has settled: ok tells whether it gave
\* what main() waits for (a ready backend, an address, a success), ip is the
\* address that a discovery gave
Continue(e, cfg, l, ok, ip) ==
    CASE l.pc = "probe" ->
           IF AfterProbe(ok) = "probe_sleep" THEN [l EXCEPT !.pc = "probe_sleep"]
           ELSE IF cfg.PUBLIC_IP # <<>> THEN Resolved(e, cfg, l, cfg.PUBLIC_IP)
           ELSE [l EXCEPT !.pc = "stun"]
      [] l.pc \in {"stun", "refresh_stun"} ->
           IF ok THEN Resolved(e, cfg, l, ip)
           ELSE [l EXCEPT !.pc = IF l.pc = "stun" THEN "echo" ELSE "refresh_echo",
                          !.service = 1]
      [] l.pc \in {"echo", "refresh_echo"} ->
           IF ok THEN Resolved(e, cfg, l, ip)
           ELSE IF l.service < Len(httpServices)
                THEN [l EXCEPT !.service = l.service + 1]
           ELSE IF l.pc = "echo" THEN Goto(l, MainCatch(DetectError))
           ELSE Goto(l, RefreshCatch(DetectError))
      [] l.pc = "register" ->
           IF e = "routes" THEN Goto(l, AfterInitialRegister(ok))
           ELSE Goto(l, AfterRegisterIp(ok))
      [] l.pc = "refresh_register" -> Goto(l, RefreshCatch(NoErr))
      [] l.pc = "hb_send" -> Goto(l, HeartbeatCatch(NoErr))

\* Time passes: d more milliseconds since the last registerRoutes call began
Tick(e, d) ==
    IF e.ms < 0 THEN e ELSE [e EXCEPT !.ms = Min(e.ms + d, MaxElapsed)]

\* The variables of main() that this granularity leaves alone
asyncFrame ==
    <<entry, config, provider, lastResolve, lastOutcome, lastResult, lastCall,
      everOps, iterOps, iterations, probes, probeDelays>>

\* The agent has parsed its identity and is about to probe the backend
InitAsync ==
    /\ entry \in {"routes", "heartbeat"}
    /\ config \in AsyncConfigs
    /\ pc = "probe"
    /\ exitCode = -1
    /\ provider = parseProvider(config.PROVIDER).ret
    /\ backendReady = FALSE
    /\ publicIp = <<>>
    /\ route = NoRoute
    /\ currentIp = <<>>
    /\ lastResolve = Return(<<>>)
    /\ lastOutcome = NoOutcome
    /\ lastResult = Return(NoResult)
    /\ lastCall = NoCall
    /\ everOps = {}
    /\ iterOps = {}
    /\ iterations = 0
    /\ probes = 0
    /\ probeDelays = <<>>
    /\ disk = EmptyDisk
    /\ CertInit
    /\ CallInit
    /\ AsyncIdle

\* main() reaches an outbound call: the operation begins, main() awaits it
StartCall ==
    /\ pc \in CallPoints
    /\ ~awaiting
    /\ inflight' = Append(inflight, OpAt(entry, pc))
    /\ awaiting' = Awaited(OpAt(entry, pc))
    /\ IF OpAt(entry, pc) = "registerRoutes"
       THEN elapsed' = [ms |-> 0, sleeps |-> <<>>]
       ELSE UNCHANGED elapsed
    /\ UNCHANGED <<pc, exitCode, backendReady, publicIp, route, currentIp,
                   staleTimers, service, settled>>
    /\ UNCHANGED <<asyncFrame, certVars, callVars>>

\* The awaited operation settles after d milliseconds, main() goes on
Settle(how, ok, ip, d) ==
    /\ awaiting
    /\ inflight # <<>>
    /\ inflight' = Tail(inflight)
    /\ awaiting' = FALSE
    /\ settled' = how
    /\ elapsed' = Tick(elapsed, d)
    /\ LET l == Continue(entry, config, Locals, ok, ip) IN
         /\ pc' = l.pc
         /\ exitCode' = l.exitCode
         /\ service' = l.service
         /\ route' = l.route
         /\ publicIp' = l.publicIp
         /\ currentIp' = l.currentIp
         /\ backendReady' = (backendReady \/ (pc = "probe" /\ ok))
    /\ UNCHANGED <<asyncFrame, certVars, callVars>>

\* The remote party answers in time; the abort timer of an HTTP request
\* stays set, it is never cleared
Respond ==
    /\ inflight # <<>>
    /\ \E ok \in BOOLEAN, ip \in {Addr1, Addr3}, d \in ResponseTimes :
         Settle("response", ok, ip, d)
    /\ staleTimers' = IF Head(inflight) \in HttpOps
                      THEN Min(staleTimers + 1, MaxTimers) ELSE staleTimers

\* The timer of createTimeoutController fires while its request is in
\* progress: fetch rejects with an AbortError
AbortFires ==
    /\ inflight # <<>>
    /\ Head(inflight) \in HttpOps
    /\ LET c == createTimeoutController(HTTP_TIMEOUT) IN
         c.armed /\ Settle("abort", FALSE, <<>>, c.ms)
    /\ UNCHANGED staleTimers

\* detectPublicIpViaStun gives up on a server that does not answer
StunGivesUp ==
    /\ inflight # <<>>
    /\ Head(inflight) = "detectPublicIpViaStun"
    /\ Settle("gave_up", FALSE, <<>>, HTTP_TIMEOUT)
    /\ UNCHANGED staleTimers

\* The timer of a request that has settled fires: controller.abort() has
\* nothing left to abort
StaleTimerFires ==
    /\ staleTimers > 0
    /\ staleTimers' = staleTimers - 1
    /\ UNCHANGED <<inflight, awaiting, service, elapsed, settled>>
    /\ UNCHANGED <<mainVars, certVars, callVars>>

\* The timer of sleep(ms) fires, main() goes on
SleepEnds ==
    /\ pc \in SleepPoints
    /\ ~awaiting
    /\ LET l == AfterSleep(entry, config, Locals)
           t == Tick(elapsed, SleepTime(config, pc))
       IN /\ pc' = l.pc
          /\ route' = l.route
          /\ currentIp' = l.currentIp
          /\ elapsed' = IF pc = "refresh_sleep" /\ t.ms >= 0
                           /\ Len(t.sleeps) < MaxSleeps
                        THEN [t EXCEPT !.sleeps = Append(@, SleepTime(config, pc))]
                        ELSE t
    /\ UNCHANGED <<exitCode, backendReady, publicIp, inflight,
                   awaiting, staleTimers, service, settled>>
    /\ UNCHANGED <<asyncFrame, certVars, callVars>>

NextAsync ==
    \/ StartCall
    \/ Respond
    \/ AbortFires
    \/ StunGivesUp
    \/ StaleTimerFires
    \/ SleepEnds

SpecAsync == InitAsync /\ [][NextAsync]_vars

\* The event loop runs main() when it can go on and fires every timer that is
\* due; nothing makes a remote party answer
SpecAsyncFair ==
    /\ SpecAsync
    /\ WF_vars(StartCall)
    /\ WF_vars(SleepEnds)
    /\ WF_vars(AbortFires)
    /\ WF_vars(StunGivesUp)

-----------------------------------------------------------------------------
\* Properties of the lifecycle loop

SteadyStates ==
    {"refresh_sleep", "refresh_detect", "refresh_register", "hb_sleep", "hb_send"}
AwaitingBackend == {"probe", "probe_sleep"}
IterationDone == pc \in {"refresh_sleep", "hb_sleep"} /\ iterations > 0

\* C1: once in the steady-state loop, no failure of resolution, of
\* registerRoutes/sendHeartbeat or exception inside an iteration terminates the
\* process: every step from a steady state leads to a steady state with the
\* process still running, and a steady state always has a next step.
C1_SteadyStateNeverFatal ==
    /\ [](pc \in SteadyStates => ENABLED Next)
    /\ [][(pc \in SteadyStates) => (pc' \in SteadyStates /\ exitCode' < 0)]_vars

\* C1 witness: the loop went on after an iteration whose resolution failed
C1_Witness ==
    /\ pc = "refresh_detect"
    /\ iterations > 0
    /\ lastResolve.thrown
    /\ exitCode = -1

\* C2: every completed refresh iteration has called registerRoutes, also the
\* iterations whose address resolution failed.
C2_EveryIterationRegisters ==
    (entry = "routes" /\ IterationDone) => "registerRoutes" \in iterOps

\* C3: every completed refresh iteration has loaded the certificate state to
\* check it for renewal.
C3_EveryIterationChecksRenewal ==
    IterationDone => "loadCertificateState" \in iterOps

\* C6: no address discovery and no registration is issued before probe has
\* returned true; while it returns false the agent stays in the await-backend
\* loop, running, and it has left that loop once probe returned true.
C6_NothingBeforeBackendReady ==
    /\ everOps \cap {"detectPublicIp", "registerRoutes", "registerIp", "sendHeartbeat"} # {}
          => backendReady
    /\ pc \in {"detect", "register"} \cup SteadyStates => backendReady
    /\ (probes > 0 /\ ~backendReady) => pc \in AwaitingBackend /\ exitCode = -1
    /\ backendReady => pc \notin AwaitingBackend

\* C6 witness: a second probe has failed and the agent is about to retry
C6_Witness ==
    /\ probes >= 2
    /\ ~backendReady
    /\ pc = "probe_sleep"
    /\ everOps = {"checkBackendHealth"}

\* C7: a failed initial address resolution, or an initial registerRoutes that
\* returns success: false, ends the process with a non-zero exit status; an
\* exited process takes no further step, so the refresh loop is never entered.
C7_InitialFailureIsFatal ==
    [][ /\ (pc = "detect" /\ lastResolve'.thrown)
             => pc' = "exited" /\ exitCode' > 0
        /\ (pc = "register" /\ entry = "routes" /\ ~lastResult'.ret.success)
             => pc' = "exited" /\ exitCode' > 0
        /\ pc = "exited" => pc' = "exited" ]_vars

\* C7 witness: the process exited after the initial registerRoutes failed
C7_Witness ==
    /\ pc = "exited"
    /\ exitCode = 1
    /\ lastCall.op = "registerRoutes"
    /\ ~lastResult.ret.success
    /\ iterations = 0

\* C8: the registerRoutes call of a refresh iteration carries the address that
\* iteration resolved, also when it differs from the route's previous address.
C8_CallCarriesResolvedAddress ==
    [][ (pc = "refresh_register" /\ pc' # pc)
          => /\ lastCall'.op = "registerRoutes"
             /\ lastCall'.routes[1].ip = lastResolve.ret
             /\ lastCall'.routes[1].ip = currentIp ]_vars

\* C8 witness: a refresh registered an address other than the initial one
C8_Witness ==
    /\ pc = "refresh_sleep"
    /\ iterations > 0
    /\ lastCall.op = "registerRoutes"
    /\ "registerRoutes" \in iterOps
    /\ lastCall.routes[1].ip # publicIp
    /\ lastCall.routes[1].ip = currentIp

\* C9: every registerRoutes call carries exactly one route, whose port,
\* priority and healthCheck are those the route was built with from the
\* configuration at startup.
C9_RouteFrame ==
    lastCall.op = "registerRoutes" =>
        /\ Len(lastCall.routes) = 1
        /\ lastCall.routes[1].port = config.TARGET_PORT
        /\ lastCall.routes[1].priority = config.ROUTE_PRIORITY
        /\ lastCall.routes[1].healthCheck = getHealthCheckConfig(config)

\* C9 witness: a customised route was re-registered with a changed address
C9_Witness ==
    /\ lastCall.op = "registerRoutes"
    /\ "registerRoutes" \in iterOps
    /\ lastCall.routes[1].ip # publicIp
    /\ lastCall.routes[1].port = 8443
    /\ lastCall.routes[1].healthCheck.defined

\* C10: registerRoutes, sendHeartbeat and probe never raise; on a transport
\* failure (timeout, refused connection, malformed JSON) registerRoutes and
\* sendHeartbeat return success: false with a non-empty error string and probe
\* returns false.
C10_NeverRaise ==
    lastCall.op \in {"registerRoutes", "sendHeartbeat", "checkBackendHealth"} =>
        /\ ~lastResult.thrown
        /\ TransportFailure(lastOutcome) =>
              IF lastCall.op = "checkBackendHealth" THEN lastResult.ret = FALSE
              ELSE /\ lastResult.ret.success = FALSE
                   /\ lastResult.ret.error.t = "string"
                   /\ lastResult.ret.error.s # ""

\* C10 witness: a refresh registration got a malformed JSON body
C10_Witness ==
    /\ lastCall.op = "registerRoutes"
    /\ "registerRoutes" \in iterOps
    /\ lastOutcome.net = "response"
    /\ lastOutcome.text.kind = "malformed"
    /\ ~lastResult.ret.success

-----------------------------------------------------------------------------
\* Properties of the certificate manager

\* The failures of requestCertificate that come from the backend's answer
BackendFailure(o) ==
    \/ o.net \in {"timeout", "refused"}
    \/ o.net = "response" /\ ~o.ok
    \/ /\ o.net = "response"
       /\ o.text.kind = "object"
       /\ JsUndefined \in {o.text.certificate, o.text.caCertificate}

\* What the three files hold once a CertificateState is saved
StateContents(st) ==
    <<[exists |-> TRUE, data |-> st.privateKey],
      [exists |-> TRUE, data |-> st.certificate.s],
      [exists |-> TRUE, data |-> st.caCertificate.s]>>

\* C4: when requestCertificate has failed on a non-success response, a timeout,
\* a transport error or a response without certificate or caCertificate, the
\* three files hold what they held before the call, and loadCertificateState
\* returns what it returned before.
C4_FailedRequestKeepsFiles ==
    ( /\ cpc = "idle"
      /\ certOp = "requestCertificate"
      /\ certResult.thrown
      /\ certResult.err.name # "IOError"
      /\ BackendFailure(certOutcome) )
    => /\ Contents(disk) = Contents(prevDisk)
       /\ loadCertificateState(disk) = loadCertificateState(prevDisk)

\* C5: after a crash or a failed write during saveCertificateState the three
\* files hold either what they held before the save or the state being saved,
\* and loadCertificateState never returns a mix of the two.
C5_SaveIsAllOrNothing ==
    /\ (cpc = "idle" /\ renewals > 0 /\ certOp \in {"requestCertificate", "crash"})
          => Contents(disk) \in {Contents(prevDisk), StateContents(pending)}
    /\ (cpc = "idle" /\ renewals > 0 /\ certOp = "loadCertificateState"
           /\ loaded.defined)
          => <<loaded.state.privateKey, loaded.state.certificate,
               loaded.state.caCertificate>>
               \in { <<prevDisk.key.data, JsStr(prevDisk.cert.data),
                       JsStr(prevDisk.ca.data)>>,
                     <<pending.privateKey, pending.certificate,
                       pending.caCertificate>> }

-----------------------------------------------------------------------------
\* Properties of the backend client

ClientCalls == {"registerRoutes", "sendHeartbeat"}

\* C11: for every backend response with a non-2xx status, registerRoutes and
\* sendHeartbeat return success: false, whatever the body is, also a parseable
\* JSON body without an error member.
C11_NonSuccessStatusFails ==
    (lastCall.op \in ClientCalls /\ lastOutcome.net = "response" /\ ~lastOutcome.ok)
        => (~lastResult.thrown /\ ~lastResult.ret.success)

\* C12: registerRoutes and sendHeartbeat return success: true exactly when the
\* parsed response has no error member; an error member of any value (also an
\* empty string, null, 0 or false) gives success: false.
C12_SuccessIffNoErrorField ==
    ( /\ lastCall.op \in ClientCalls
      /\ lastOutcome.net = "response"
      /\ lastOutcome.text.kind = "object" )
    => (lastResult.ret.success <=> lastOutcome.text.error = JsUndefined)

\* C18: probe returns true exactly when the body of the health-check response
\* parses as JSON, whatever the HTTP status; it returns false on every
\* transport or parse error and never throws.
C18_ProbeIffBodyParses ==
    lastCall.op = "checkBackendHealth" =>
        /\ ~lastResult.thrown
        /\ lastResult.ret
              <=> (lastOutcome.net = "response" /\ lastOutcome.text.kind # "malformed")

-----------------------------------------------------------------------------
\* Properties of the startup

\* The PROVIDER check of main() or parseProvider rejects the configuration
InvalidIdentity ==
    config.PROVIDER = <<>> \/ parseProvider(config.PROVIDER).thrown

\* C16: when the identity does not parse or the configuration is rejected, the
\* process ends with a non-zero exit status straight from the start, and no
\* probe, discovery, registration or other outbound call is ever issued.
C16_InvalidIdentityIsFatal ==
    InvalidIdentity =>
        /\ pc \in {"start", "exited"}
        /\ pc = "exited" => exitCode > 0
        /\ everOps = {}
        /\ lastCall = NoCall
        /\ lastOutcome = NoOutcome

\* C16 witness: the process exited on a PROVIDER that parseProvider rejected
C16_Witness ==
    /\ config.PROVIDER # <<>>
    /\ parseProvider(config.PROVIDER).thrown
    /\ pc = "exited"
    /\ exitCode = 1
    /\ everOps = {}

-----------------------------------------------------------------------------
\* Properties of the certificate store

\* C13: loadCertificateState returns null unless the key, the certificate and
\* the CA certificate are all present and the certificate parses: with any one
\* of the three missing it returns null, also when the other two are valid;
\* and it never raises.
C13_LoadNeedsAllThree ==
    certOp = "loadCertificateState" =>
        /\ ~loadResult.thrown
        /\ loadResult.ret = loaded
        /\ ~disk.key.exists => ~loaded.defined
        /\ ~disk.cert.exists => ~loaded.defined
        /\ ~disk.ca.exists => ~loaded.defined
        /\ CertNotAfter(disk.cert.data) < 0 => ~loaded.defined
        /\ loaded.defined =>
              /\ loaded.state.privateKey = disk.key.data
              /\ loaded.state.certificate = JsStr(disk.cert.data)
              /\ loaded.state.caCertificate = JsStr(disk.ca.data)

\* C13 witness: the load returned null with a valid key and certificate and
\* only the CA certificate missing
C13_Witness ==
    /\ certOp = "loadCertificateState"
    /\ disk.key = File("K1", KeyMode)
    /\ disk.cert = File("C1", CertMode)
    /\ ~disk.ca.exists
    /\ ~loaded.defined
    /\ ~loadResult.thrown

\* C14: needsRenewal(expiresAt) is true when expiresAt is at or before the
\* current time, true when the remaining lifetime is strictly less than 36
\* hours, and false when it is 36 hours or more (exactly 36 hours gives false).
C14_RenewalThreshold ==
    (renewal # "none" /\ expiresAt.valid) =>
        /\ expiresAt.time <= now => renewal = "true"
        /\ expiresAt.time - now < 36 * Hour => renewal = "true"
        /\ expiresAt.time - now >= 36 * Hour => renewal = "false"

\* C14 witness: needsRenewal answered false with exactly 36 hours remaining
C14_Witness ==
    /\ renewal = "false"
    /\ expiresAt.valid
    /\ now > 0
    /\ expiresAt.time - now = 36 * Hour

-----------------------------------------------------------------------------
\* Properties of the configuration parser

RECURSIVE CountOf(_, _)
\* How often the character c occurs in s
CountOf(s, c) ==
    IF s = <<>> THEN 0
    ELSE (IF Head(s) = c THEN 1 ELSE 0) + CountOf(Tail(s), c)

\* s has an empty field: it starts or ends with a comma, or has two in a row
HasEmptyField(s) ==
    \/ s = <<>>
    \/ Head(s) = ","
    \/ s[Len(s)] = ","
    \/ \E i \in 1..(Len(s) - 1) : s[i] = "," /\ s[i + 1] = ","

\* C15: parseProvider succeeds on every string url,id,sig of three non-empty
\* fields whose url starts with http, and returns exactly the three fields:
\* joined with commas they give back the input; every string with a missing or
\* an empty field, or whose url does not start with http, fails.
C15_ParseRoundTrip ==
    parseResult # NotParsed =>
        /\ ( /\ CountOf(providerInput, ",") = 2
             /\ ~HasEmptyField(providerInput)
             /\ StartsWith(providerInput, <<"h", "t", "t", "p">>) )
           => /\ ~parseResult.thrown
              /\ Join(<<parseResult.ret.backendUrl, parseResult.ret.userId,
                        parseResult.ret.signature>>, Comma) = providerInput
              /\ CountOf(parseResult.ret.backendUrl, ",") = 0
              /\ CountOf(parseResult.ret.userId, ",") = 0
              /\ CountOf(parseResult.ret.signature, ",") = 0
        /\ CountOf(providerInput, ",") < 2 => parseResult.thrown
        /\ (CountOf(providerInput, ",") = 2 /\ HasEmptyField(providerInput))
              => parseResult.thrown
        /\ ~StartsWith(providerInput, <<"h", "t", "t", "p">>) => parseResult.thrown

\* C15 witness: http:b,u,http parsed into its three fields
C15_Witness ==
    /\ providerInput = Txt_http_b \o Comma \o Txt_u \o Comma \o <<"h", "t", "t", "p">>
    /\ ~parseResult.thrown
    /\ parseResult.ret.backendUrl = Txt_http_b
    /\ parseResult.ret.userId = Txt_u
    /\ parseResult.ret.signature = <<"h", "t", "t", "p">>

-----------------------------------------------------------------------------
\* Properties of the await-backend loop

\* C17: when probe fails k times and then succeeds, exactly k+1 probes are
\* issued, the same 30-second delay is slept after each failed probe (it does
\* not grow with the retries) and none after the successful one, and the agent
\* then leaves the loop towards the registration.
C17_FixedProbeDelay ==
    /\ \A i \in 1..Len(probeDelays) : probeDelays[i] = 30 * 1000
    /\ backendReady => pc \notin AwaitingBackend
    /\ (probes > 0 /\ probes < MaxProbes) =>
          CASE pc = "probe_sleep" -> ~backendReady /\ Len(probeDelays) = probes - 1
            [] pc = "probe" -> ~backendReady /\ Len(probeDelays) = probes
            [] OTHER -> backendReady /\ Len(probeDelays) = probes - 1

\* C17 witness: two probes failed, the third succeeded, and the agent is about
\* to resolve its address after two delays
C17_Witness ==
    /\ pc = "detect"
    /\ backendReady
    /\ probes = 3
    /\ probeDelays = <<30000, 30000>>

-----------------------------------------------------------------------------
\* Properties of the address discovery

\* A group of an IPv6 literal: one to four hexadecimal digits
IsHexGroup(g) ==
    Len(g) \in 1..4 /\ \A i \in 1..Len(g) : g[i] \in Digits \cup HexLetters

\* s is a colon-separated list of n groups, for some n in ns
IsGroupList(s, ns) ==
    LET gs == Split(s, ":") IN
    Len(gs) \in ns /\ \A i \in 1..Len(gs) : IsHexGroup(gs[i])

\* The text form of an IPv6 address (RFC 4291, without an embedded IPv4
\* address): eight groups, or fewer with a single "::" standing for the rest
IsIPv6Literal(s) ==
    \/ IsGroupList(s, {8})
    \/ \E k \in 1..(Len(s) - 1) :
          /\ s[k] = ":" /\ s[k + 1] = ":"
          /\ LET left == SubSeq(s, 1, k - 1)
                 right == SubSeq(s, k + 2, Len(s))
                 nl == IF left = <<>> THEN 0 ELSE Len(Split(left, ":"))
                 nr == IF right = <<>> THEN 0 ELSE Len(Split(right, ":"))
             IN  /\ left = <<>> \/ IsGroupList(left, 1..7)
                 /\ right = <<>> \/ IsGroupList(right, 1..7)
                 /\ nl + nr <= 7

\* The dotted-quad text form of an IPv4 address
IsIPv4Literal(s) ==
    LET ds == Split(s, ".") IN
    Len(ds) = 4 /\ \A i \in 1..4 : IsOctet(ds[i])

\* The fallback answered, and its answer is a valid address literal
EchoGivesAddress(o) ==
    /\ o.net = "response"
    /\ o.ok
    /\ IsIPv4Literal(Trim(o.text)) \/ IsIPv6Literal(Trim(o.text))

\* The index of the first fallback that gives an address, 0 when none does
FirstAddress(echoes) ==
    IF \E i \in 1..Len(echoes) : EchoGivesAddress(echoes[i])
    THEN CHOOSE i \in 1..Len(echoes) :
            /\ EchoGivesAddress(echoes[i])
            /\ \A j \in 1..(i - 1) : ~EchoGivesAddress(echoes[j])
    ELSE 0

\* C19: detectPublicIp attempts the primary protocol exactly once and returns
\* its address when it succeeds, contacting no fallback; otherwise it tries the
\* fallbacks in their listed order and returns the address of the first whose
\* answer is a syntactically valid IPv4 or IPv6 literal, contacting no later
\* one; it fails only when every fallback failed or gave an invalid address.
C19_FirstValidAddress ==
    contacted # <<>> =>
        LET k == FirstAddress(echoesIn) IN
        /\ contacted[1] = "stun"
        /\ \A i \in 2..Len(contacted) : contacted[i] = httpServices[i - 1]
        /\ ~stunIn.thrown =>
              (detection = Return(stunIn.ret) /\ Len(contacted) = 1)
        /\ (stunIn.thrown /\ k > 0) =>
              /\ detection = Return(Trim(echoesIn[k].text))
              /\ Len(contacted) = 1 + k
        /\ (stunIn.thrown /\ k = 0) =>
              /\ detection.thrown
              /\ Len(contacted) = 1 + Len(httpServices)

-----------------------------------------------------------------------------
\* Properties of the initial registration

\* The character a %XX escape stands for
EscapedChar(h) ==
    CASE h = <<"2", "0">> -> " "
      [] h = <<"2", "3">> -> "#"
      [] h = <<"2", "5">> -> "%"
      [] h = <<"2", "6">> -> "&"
      [] h = <<"2", "B">> -> "+"
      [] h = <<"2", "C">> -> ","
      [] h = <<"2", "F">> -> "/"
      [] h = <<"3", "A">> -> ":"
      [] h = <<"3", "D">> -> "="
      [] h = <<"3", "F">> -> "?"
      [] h = <<"4", "0">> -> "@"
      [] OTHER -> "%"

RECURSIVE Unescape(_)
\* The text a URL path segment stands for
Unescape(s) ==
    IF s = <<>> THEN <<>>
    ELSE IF Head(s) = "%" /\ Len(s) >= 3
    THEN <<EscapedChar(SubSeq(s, 2, 3))>> \o Unescape(SubSeq(s, 4, Len(s)))
    ELSE <<Head(s)>> \o Unescape(Tail(s))

\* url is base followed by path and by two path segments that stand for id
\* and sig and hold no character a URL reserves
IsIdentityUrl(url, base, path, id, sig) ==
    /\ StartsWith(url, base \o path)
    /\ LET segs == Split(SubSeq(url, Len(base \o path) + 1, Len(url)), "/") IN
       /\ Len(segs) = 2
       /\ \A k \in 1..2 : \A i \in 1..Len(segs[k]) :
             segs[k][i] \in UriUnreserved \cup {"%"}
       /\ Unescape(segs[1]) = id
       /\ Unescape(segs[2]) = sig

\* https://api.example.com/router/api/routes/alice/sig123
ExampleUrl ==
    <<"h", "t", "t", "p", "s", ":", "/", "/", "a", "p", "i", ".", "e", "x",
      "a", "m", "p", "l", "e", ".", "c", "o", "m", "/", "r", "o", "u", "t",
      "e", "r", "/", "a", "p", "i", "/", "r", "o", "u", "t", "e", "s", "/",
      "a", "l", "i", "c", "e", "/", "s", "i", "g", "1", "2", "3">>

\* C20: the initial registerRoutes call is a POST to
\* <backendUrl>/router/api/routes/<escaped userId>/<escaped signature> whose
\* body holds exactly one route, made of the resolved address, the configured
\* port and the configured priority (for https://api.example.com,alice,sig123
\* and the address 203.0.113.5: address 203.0.113.5, port 443, priority 1); a
\* response object without an error member leaves the agent registered and
\* running.
C20_InitialRegistration ==
    [][ (pc = "register" /\ entry = "routes" /\ pc' # pc) =>
          /\ lastCall'.op = "registerRoutes"
          /\ lastCall'.method = "POST"
          /\ IsIdentityUrl(lastCall'.url, provider.backendUrl, RoutesPath,
                           provider.userId, provider.signature)
          /\ Len(lastCall'.routes) = 1
          /\ lastCall'.routes[1].ip = publicIp
          /\ lastCall'.routes[1].ip = lastResolve.ret
          /\ lastCall'.routes[1].port = config.TARGET_PORT
          /\ lastCall'.routes[1].priority = config.ROUTE_PRIORITY
          /\ (config = ExampleConfig /\ lastResolve.ret = Addr3) =>
                /\ lastCall'.url = ExampleUrl
                /\ lastCall'.routes[1].ip = Addr3
                /\ lastCall'.routes[1].port = 443
                /\ lastCall'.routes[1].priority = 1
          /\ ( /\ lastOutcome'.net = "response"
               /\ lastOutcome'.text.kind = "object"
               /\ lastOutcome'.text.error = JsUndefined )
             => (pc' = "refresh_sleep" /\ exitCode' < 0) ]_vars

\* C20 witness: the agent of the example is registered with 203.0.113.5 and
\* waits for its first refresh
C20_Witness ==
    /\ config = ExampleConfig
    /\ pc = "refresh_sleep"
    /\ exitCode = -1
    /\ iterations = 0
    /\ lastCall.op = "registerRoutes"
    /\ lastCall.method = "POST"
    /\ lastCall.url = ExampleUrl
    /\ lastCall.routes = <<[ip |-> Addr3, port |-> 443, priority |-> 1,
                            healthCheck |-> NoHealthCheck]>>
    /\ lastOutcome.text.kind = "object"
    /\ lastOutcome.text.error = JsUndefined

\* C29: when config.PUBLIC_IP is set, detectPublicIp is never invoked, neither
\* at bootstrap nor in a refresh iteration, and the route of every
\* registerRoutes call carries the override as its address
C29_OverrideSkipsDiscovery ==
    (config.PUBLIC_IP # <<>>) =>
        /\ "detectPublicIp" \notin everOps
        /\ "detectPublicIp" \notin iterOps
        /\ ~lastResolve.thrown
        /\ (pc \in {"register", "refresh_sleep", "refresh_detect",
                    "refresh_register"} /\ entry = "routes") =>
              route.ip = config.PUBLIC_IP
        /\ (lastCall.op = "registerRoutes") =>
              /\ Len(lastCall.routes) = 1
              /\ lastCall.routes[1].ip = config.PUBLIC_IP

\* C29 witness: an agent with the override 255.0.0.9 has registered in a refresh
\* iteration, with that address and without any discovery
C29_Witness ==
    /\ config.PUBLIC_IP = Addr2
    /\ entry = "routes"
    /\ iterations > 0
    /\ pc = "refresh_sleep"
    /\ "registerRoutes" \in iterOps
    /\ lastCall.op = "registerRoutes"
    /\ lastCall.routes[1].ip = Addr2
    /\ "detectPublicIp" \notin everOps

-----------------------------------------------------------------------------
\* Properties of the key and of the persisted state

\* A step of the caller that is one whole ensureKeyPair call
EnsureKeyPairStep == cpc = "idle" /\ cpc' = "idle" /\ certOp' = "ensureKeyPair"

\* C23: ensureKeyPair generates a key at most once. On an existing key file it
\* returns the file's content and writes nothing; without one it returns
\* nothing or a generated key that is already in the key file, mode 0o600; and
\* a call that follows another ensureKeyPair call returns the same key.
C23_KeyGeneratedAtMostOnce ==
    [][ EnsureKeyPairStep =>
          /\ disk.key.exists =>
                /\ disk' = disk
                /\ keyPem' = disk.key.data
          /\ ~disk.key.exists =>
                \/ keyPem' = keyPem /\ keyPem = "none"
                \/ /\ keyPem' \in GeneratedKeys
                   /\ disk' = [disk EXCEPT !.key = File(keyPem', KeyMode)]
          /\ (certOp = "ensureKeyPair" /\ keyPem # "none") =>
                keyPem' = keyPem ]_vars

\* C23 witness: after a renewal the caller asked for its key again and got
\* the key of the key file
C23_Witness ==
    /\ cpc = "idle"
    /\ certOp = "ensureKeyPair"
    /\ renewals > 0
    /\ keyPem \in GeneratedKeys
    /\ disk.key = File(keyPem, KeyMode)
    /\ disk.cert.exists

\* C24: after every successful saveCertificateState (all three writes done)
\* the key file has mode 0o600 and the certificate and CA certificate files
\* have mode 0o644, whatever the modes of the files that existed before; the
\* same for the key file after an ensureKeyPair that generated the key.
C24_ModesAfterSave ==
    /\ (cpc = "save_log") =>
          /\ disk.key.mode = KeyMode
          /\ disk.cert.mode = CertMode
          /\ disk.ca.mode = CertMode
    /\ (cpc = "idle" /\ certOp = "ensureKeyPair" /\ keyPem \in GeneratedKeys
          /\ ~prevDisk.key.exists /\ renewals = 0) =>
          disk.key.mode = KeyMode

\* C27: right after a successful requestCertificate, loadCertificateState
\* returns the state requestCertificate returned (privateKey, certificate,
\* caCertificate, expiresAt), and the returned expiresAt is the notAfter of the
\* returned certificate.
C27_PersistLoadRoundTrip ==
    ( /\ cpc = "idle"
      /\ certOp = "requestCertificate"
      /\ renewals > 0
      /\ ~certResult.thrown )
    => /\ loadCertificateStateOn(disk, "ok")
            = Return([defined |-> TRUE, state |-> certResult.ret])
       /\ certResult.ret.expiresAt.valid
       /\ certResult.ret.expiresAt.time
            = CertNotAfter(certResult.ret.certificate.s)

\* C28: a key file that holds a generated key keeps that content over every
\* ensureKeyPair call and every requestCertificate, successful or failed, that
\* is made with the key ensureKeyPair returned.
C28_KeyFileNeverChanges ==
    [][ (disk.key.exists /\ disk.key.data \in GeneratedKeys) =>
          (disk'.key.exists /\ disk'.key.data = disk.key.data) ]_vars

-----------------------------------------------------------------------------
\* Properties of the timing and of the scheduling of main()

\* This step begins a registerRoutes call
RegisterBegins ==
    /\ Len(inflight') = Len(inflight) + 1
    /\ inflight'[Len(inflight')] = "registerRoutes"

\* C21: with the default refresh interval, the time from the beginning of one
\* registerRoutes call to the beginning of the next (the sleep, the discovery
\* and the call itself) is always less than the route TTL of 5 minutes.
C21_RefreshWithinTtl ==
    [][ (RegisterBegins /\ elapsed.ms >= 0
           /\ config.REFRESH_INTERVAL = DefaultConfig.REFRESH_INTERVAL)
        => elapsed.ms < RouteTtl ]_vars

\* The refresh or heartbeat loop is asleep, or at work
LoopSleeping == pc \in {"refresh_sleep", "hb_sleep"}
LoopWorking == pc \in {"refresh_stun", "refresh_echo", "refresh_register", "hb_send"}

\* C22: every outbound request that main() awaits settles in the end, also when
\* no remote party ever answers, so that the refresh (or heartbeat) loop goes
\* from its sleep to its work and back to its sleep again and again.
C22_RefreshLoopNeverStalls ==
    /\ [](awaiting => <>(~awaiting))
    /\ [](LoopSleeping => <>LoopWorking)
    /\ [](LoopWorking => <>LoopSleeping)

\* C22 witness: the registerRoutes call of a refresh iteration was aborted by
\* its timer after HTTP_TIMEOUT and the loop is asleep again
C22_Witness ==
    /\ entry = "routes"
    /\ pc = "refresh_sleep"
    /\ settled = "abort"
    /\ ~awaiting
    /\ inflight = <<>>
    /\ elapsed = [ms |-> HTTP_TIMEOUT, sleeps |-> <<>>]
    /\ currentIp # <<>>

\* C25: at most one outbound operation is in progress at any time and main()
\* is suspended for as long as it is; an operation begins only when none is in
\* progress; while one is in progress nothing moves main() or writes the
\* route, which changes only in the step that settles an operation.
C25_OneOperationAtATime ==
    /\ [](Len(inflight) <= 1 /\ (inflight # <<>> => awaiting))
    /\ [][ /\ (Len(inflight') > Len(inflight)) => inflight = <<>>
           /\ (inflight # <<>> /\ inflight' = inflight) =>
                 (route' = route /\ pc' = pc)
           /\ (route' # route) => (inflight # <<>> /\ inflight' = <<>>) ]_vars

\* C25 witness: a refresh iteration found another address, wrote it to the
\* route and awaits its registerRoutes call, alone in progress, while timers
\* of earlier requests are still pending
C25_Witness ==
    /\ inflight = <<"registerRoutes">>
    /\ awaiting
    /\ pc = "refresh_register"
    /\ staleTimers > 0
    /\ publicIp = Addr1
    /\ currentIp = Addr3
    /\ route.ip = Addr3

\* C26: two consecutive registerRoutes calls are separated by exactly one
\* sleep, of the configured refresh interval, whatever happened in between (a
\* success, a failed registration, a failed resolution).
C26_OneSleepBetweenCalls ==
    [][ (RegisterBegins /\ elapsed.ms >= 0)
        => elapsed.sleeps = <<config.REFRESH_INTERVAL * 1000>> ]_vars

====
